---- MODULE Spec2Model ----
(***************************************************************************)
(* Order fulfillment and delivery dispatch of the grocery backend:         *)
(*   routers/payment.py  confirm_payment                                   *)
(*   routers/orders.py   cancel_order                                      *)
(*   routers/vehicle.py  ConnectionManager, ws/monitor, ws/deliver         *)
(* The database holds the committed rows.  Every HTTP handler runs in its  *)
(* own thread with its own SQLAlchemy Session (database.py get_db), every  *)
(* websocket handler is a coroutine with its own Session.  A handler is    *)
(* cut at the points where it talks to the database or awaits, so each     *)
(* action is one database statement / commit together with the local code  *)
(* that follows it.  A Session keeps the attribute values it loaded until  *)
(* its next commit (expire_on_commit), and an ORM flush writes the value   *)
(* computed from them.                                                     *)
(***************************************************************************)
EXTENDS Integers, Sequences, FiniteSets, TLC

(* ------------------------------ bounds --------------------------------- *)
NumUsers == 2
NumItems == 2
NumVehicles == 2
NumIntents == 2
MaxReq == 2
MaxQty == 2
InitStock == 2
MaxFrames == 2
MaxCancel == 1
MaxChan == 2

Users == 1..NumUsers
Items == 1..NumItems
Vehicles == 1..NumVehicles
Reqs == 1..MaxReq
Sessions == 1..NumVehicles
Intents == 1..NumIntents
Chans == 1..MaxChan

\* NULL column value / None
NULL == 0

(* --------------------------- program data ------------------------------ *)
\* stripe: the customer a PaymentIntent belongs to
IntentCustomer(p) == ((p - 1) % NumUsers) + 1

\* Item.weight_oz of the catalog rows: item 1 is heavy, the others light
weight_oz(i) == IF i = 1 THEN 1600 ELSE 16

\* max weight 200lbs
MaxWeightOz == 200 * 16

PACKING == "packing"
SHIPPED == "shipped"
DELIVERED == "delivered"
CANCELED == "canceled"
OrderStatus == {PACKING, SHIPPED, DELIVERED, CANCELED}

READY == "ready"
DELIVERING == "delivering"
RETURNING == "returning"

(* ------------------------------ state ---------------------------------- *)
VARIABLES
    stock_qty,           \* items.stock_qty, per item id
    cart_item,           \* table cart_item: rows [user_id, item_id, quantity]
    orders,              \* table orders: order id -> row
    order_items,         \* table order_items: rows [order_id, item_id, quantity]
    audit_logs,          \* table audit_logs: rows [action_type, target_id]
    req,                 \* the HTTP handler threads and their Sessions
    veh,                 \* the ws/deliver coroutines and their Sessions
    active_connections,  \* ConnectionManager.active_connections: user id ->
                         \* the observer socket registered for it, or NULL
    mon,                 \* the ws/monitor coroutines, one per observer socket
    inbox                \* orderUpdate messages received by each user

vars == <<stock_qty, cart_item, orders, order_items, audit_logs, req, veh,
          active_connections, mon, inbox>>

db == <<stock_qty, cart_item, orders, order_items, audit_logs>>

(* ------------------------------ helpers -------------------------------- *)
Max(S) == CHOOSE x \in S : \A y \in S : y <= x
Min(S) == CHOOSE x \in S : \A y \in S : x <= y

RECURSIVE SortedSeq(_)
\* the rows of a query in primary-key order
SortedSeq(S) == IF S = {} THEN <<>> ELSE <<Min(S)>> \o SortedSeq(S \ {Min(S)})

RECURSIVE SumSeq(_)
SumSeq(s) == IF s = <<>> THEN 0 ELSE Head(s) + SumSeq(Tail(s))

\* sqlite rowid for a new row of orders
NextOrderId == IF DOMAIN orders = {} THEN 1 ELSE Max(DOMAIN orders) + 1

\* Order(...) as added at payment.py 41-48, with the column defaults
NewOrder(u, p) ==
    [user_id |-> u, payment_intent_id |-> p, status |-> PACKING,
     polyline |-> NULL, delivery_vehicle_id |-> NULL]

\* select(Order).where(Order.payment_intent_id == intent.id)
OrdersOfIntent(p) == {o \in DOMAIN orders : orders[o].payment_intent_id = p}

\* db.query(CartItem, Item).join(Item).filter(CartItem.user_id == user.id)
CartRows(u) == {c \in cart_item : c.user_id = u}

CartQuantity(u, i) ==
    IF \E c \in CartRows(u) : c.item_id = i
    THEN (CHOOSE c \in CartRows(u) : c.item_id = i).quantity
    ELSE 0

\* the joined rows as the Session loads them: quantity and stock_qty cached
LoadCart(u) ==
    LET ids == SortedSeq({c.item_id : c \in CartRows(u)})
    IN  [n \in 1..Len(ids) |->
            [item_id |-> ids[n], quantity |-> CartQuantity(u, ids[n]),
             stock_qty |-> stock_qty[ids[n]]]]

\* db.query(OrderItem, Item).join(Item).filter(OrderItem.order_id == order.id)
OrderItemsOf(o) == {oi \in order_items : oi.order_id = o}

LoadOrderItems(o) ==
    LET ids == SortedSeq({oi.item_id : oi \in OrderItemsOf(o)})
    IN  [n \in 1..Len(ids) |->
            [item_id |-> ids[n],
             quantity |-> (CHOOSE oi \in OrderItemsOf(o) : oi.item_id = ids[n]).quantity,
             stock_qty |-> stock_qty[ids[n]]]]

\* accum_weight_oz of payment.py 61-67
AccumWeightOz(rows) ==
    SumSeq([n \in 1..Len(rows) |-> weight_oz(rows[n].item_id) * rows[n].quantity])

\* index of the first row with ci.quantity > it.stock_qty, 0 when there is none
FirstShort(rows) ==
    LET short == {n \in 1..Len(rows) : rows[n].quantity > rows[n].stock_qty}
    IN  IF short = {} THEN 0 ELSE Min(short)

(* --------------------------- HTTP responses ---------------------------- *)
NoResponse ==
    [code |-> 0, detail |-> "", order_id |-> NULL, item_id |-> NULL, available |-> 0,
     polyline |-> NULL]

HTTPException(c, d) == [NoResponse EXCEPT !.code = c, !.detail = d]

\* schemas.py ConfirmPaymentResponse has the single required field orderId;
\* any other keyword is ignored and a missing orderId is a validation error,
\* which FastAPI answers with 500
ConfirmPaymentResponse(kwargs) ==
    IF "orderId" \in DOMAIN kwargs
    THEN [NoResponse EXCEPT !.code = 200, !.detail = "ok", !.order_id = kwargs.orderId]
    ELSE HTTPException(500, "validation_error")

\* schemas.py OrderRouteResponse: polyline, which may be None
OrderRouteResponse(polyline) ==
    [NoResponse EXCEPT !.code = 200, !.detail = "ok", !.polyline = polyline]

IdleReq ==
    [pc |-> "idle", kind |-> "none", user |-> NULL, intent |-> NULL,
     order |-> NULL, rows |-> <<>>, short |-> 0, k |-> 0, response |-> NoResponse,
     item |-> NULL, quantity |-> 0]

(* -------------------------------- Init --------------------------------- *)
InitCarts ==
    {rows \in SUBSET [user_id : Users, item_id : Items, quantity : 1..MaxQty] :
        \A c, d \in rows : (c.user_id = d.user_id /\ c.item_id = d.item_id) => c = d}

\* a ws/deliver socket that has been accepted and awaits its first frame
\* id and secret_ok are what the frame read while vehicle is None carried
\* (vehicle.py 74-75); routes tells how the last planner call ended and
\* visited holds the ids of the orders its routes visit (vehicle.py 92-98)
IdleVeh ==
    [pc |-> "recv", vehicle |-> NULL, frames |-> 0, orders |-> <<>>,
     affected_users |-> {}, id |-> NULL, secret_ok |-> FALSE,
     routes |-> "none", visited |-> {}]

\* a ws/monitor socket before manager.connect has registered it
IdleMon == [pc |-> "accept", user |-> NULL]

Init ==
    /\ stock_qty \in [Items -> 0..InitStock]
    /\ cart_item \in InitCarts
    /\ orders = << >>
    /\ order_items = {}
    /\ audit_logs = {}
    /\ req = [r \in Reqs |-> IdleReq]
    /\ veh = [s \in Sessions |-> IdleVeh]
    /\ active_connections = [u \in Users |-> NULL]
    /\ mon = [c \in Chans |-> IdleMon]
    /\ inbox = [u \in Users |-> 0]

\* the state after InitOrders customers have each confirmed a cart holding
\* one unit of one item: their orders are packing, the carts are empty
InitOrders == 2

InitOrderItem(o) == ((o - 1) % NumItems) + 1

DispatchInit ==
    /\ stock_qty = [i \in Items |->
           InitStock - Cardinality({o \in 1..InitOrders : InitOrderItem(o) = i})]
    /\ cart_item = {}
    /\ orders = [o \in 1..InitOrders |-> NewOrder(IntentCustomer(o), o)]
    /\ order_items = {[order_id |-> o, item_id |-> InitOrderItem(o), quantity |-> 1] :
                         o \in 1..InitOrders}
    /\ audit_logs = {[action_type |-> "order_created", target_id |-> o] :
                        o \in 1..InitOrders}
    /\ req = [r \in Reqs |-> IdleReq]
    /\ veh = [s \in Sessions |-> IdleVeh]
    /\ active_connections = [u \in Users |-> NULL]
    /\ mon = [c \in Chans |-> IdleMon]
    /\ inbox = [u \in Users |-> 0]

(* ------------------------- confirm_payment ----------------------------- *)
\* payment.py 24-39: the intent is retrieved and checked, then an existing
\* order for the intent answers the call
confirm_payment_begin(r, u, p, intent_status) ==
    /\ req[r].pc = "idle"
    /\ LET found == OrdersOfIntent(p)
           base == [IdleReq EXCEPT !.kind = "confirm", !.user = u, !.intent = p]
           done(resp) == [base EXCEPT !.pc = "done", !.response = resp]
       IN  req' = [req EXCEPT ![r] =
                IF IntentCustomer(p) # u
                    THEN done(HTTPException(403, "unauthorized"))
                ELSE IF intent_status # "succeeded"
                    THEN done(HTTPException(400, "payment_not_successful"))
                ELSE IF Cardinality(found) > 1
                    \* one_or_none() raises MultipleResultsFound
                    THEN done(HTTPException(500, "multiple_results"))
                ELSE IF found # {}
                    THEN done(ConfirmPaymentResponse(
                                [order_id |-> CHOOSE o \in found : TRUE]))
                ELSE [base EXCEPT !.pc = "create"]]
    /\ UNCHANGED <<db, veh, active_connections, mon, inbox>>

\* payment.py 41-52: the order row is inserted and committed
confirm_payment_create(r) ==
    /\ req[r].pc = "create"
    /\ orders' = orders @@ (NextOrderId :> NewOrder(req[r].user, req[r].intent))
    /\ req' = [req EXCEPT ![r].pc = "load", ![r].order = NextOrderId]
    /\ UNCHANGED <<stock_qty, cart_item, order_items, audit_logs, veh,
                   active_connections, mon, inbox>>

\* confirm_payment_load with the stock reserved row by row while it is
\* checked and not given back when a later row fails
confirm_payment_load_reserving(r) ==
    /\ req[r].pc = "load"
    /\ LET rows == LoadCart(req[r].user)
           n == FirstShort(rows)
       IN  /\ req' = [req EXCEPT ![r] =
                IF n # 0
                    THEN [@ EXCEPT !.pc = "reject", !.rows = rows, !.short = n]
                ELSE IF AccumWeightOz(rows) > MaxWeightOz
                    THEN [@ EXCEPT !.pc = "done", !.rows = rows,
                                   !.response = HTTPException(400, "weight_exceeded")]
                ELSE [@ EXCEPT !.pc = IF rows = <<>> THEN "finish" ELSE "line_commit",
                               !.rows = rows, !.k = 1]]
           /\ stock_qty' =
                [i \in Items |->
                    IF \E m \in 1..Len(rows) : m < n /\ rows[m].item_id = i
                    THEN stock_qty[i] - CartQuantity(req[r].user, i)
                    ELSE stock_qty[i]]
    /\ UNCHANGED <<cart_item, orders, order_items, audit_logs, veh,
                   active_connections, mon, inbox>>

\* payment.py 57-81: the cart is read and checked against the loaded stock;
\* the weight check raises without touching the order row
confirm_payment_load(r) ==
    /\ req[r].pc = "load"
    /\ LET rows == LoadCart(req[r].user)
           n == FirstShort(rows)
       IN  req' = [req EXCEPT ![r] =
                IF n # 0
                    THEN [@ EXCEPT !.pc = "reject", !.rows = rows, !.short = n]
                ELSE IF AccumWeightOz(rows) > MaxWeightOz
                    THEN [@ EXCEPT !.pc = "done", !.rows = rows,
                                   !.response = HTTPException(400, "weight_exceeded")]
                ELSE [@ EXCEPT !.pc = IF rows = <<>> THEN "finish" ELSE "line_commit",
                               !.rows = rows, !.k = 1]]
    /\ UNCHANGED <<db, veh, active_connections, mon, inbox>>

\* payment.py 69-70: db.delete(order); db.commit()
confirm_payment_reject(r) ==
    /\ req[r].pc = "reject"
    /\ orders' = [o \in DOMAIN orders \ {req[r].order} |-> orders[o]]
    /\ req' = [req EXCEPT ![r].pc = "raise"]
    /\ UNCHANGED <<stock_qty, cart_item, order_items, audit_logs, veh,
                   active_connections, mon, inbox>>

\* payment.py 71-74: the detail is formatted from it and ci, which the commit
\* expired and which are therefore loaded again
confirm_payment_raise(r) ==
    /\ req[r].pc = "raise"
    /\ LET i == req[r].rows[req[r].short].item_id
           gone == ~ \E c \in CartRows(req[r].user) : c.item_id = i
       IN  req' = [req EXCEPT ![r].pc = "done",
                              ![r].response =
                                  IF gone
                                  THEN HTTPException(500, "object_deleted")
                                  ELSE [HTTPException(400, "insufficient_stock") EXCEPT
                                            !.item_id = i,
                                            !.available = stock_qty[i]]]
    /\ UNCHANGED <<db, veh, active_connections, mon, inbox>>

\* payment.py 86-93 from the second row on: the commit of the previous row
\* expired every loaded object, so order, it and ci are loaded again
confirm_payment_line_load(r) ==
    /\ req[r].pc = "line_load"
    /\ LET row == req[r].rows[req[r].k]
           gone == \/ req[r].order \notin DOMAIN orders
                   \/ ~ \E c \in CartRows(req[r].user) : c.item_id = row.item_id
       IN  req' = [req EXCEPT ![r] =
                IF gone
                    \* ObjectDeletedError
                    THEN [@ EXCEPT !.pc = "done",
                                   !.response = HTTPException(500, "object_deleted")]
                ELSE [@ EXCEPT !.pc = "line_commit",
                               !.rows[req[r].k] =
                                   [item_id |-> row.item_id,
                                    quantity |-> CartQuantity(req[r].user, row.item_id),
                                    stock_qty |-> stock_qty[row.item_id]]]]
    /\ UNCHANGED <<db, veh, active_connections, mon, inbox>>

\* the UPDATE of items the flush emits for it.stock_qty -= ci.quantity: the
\* value computed from the loaded stock_qty, nothing when it did not change
DeductStock(row) ==
    IF row.quantity = 0 THEN stock_qty
    ELSE [stock_qty EXCEPT ![row.item_id] = row.stock_qty - row.quantity]

\* payment.py 89-112: one cart row becomes an order item, the cart row is
\* deleted (a row already gone only warns), the stock is written; commit
confirm_payment_line_commit(r) ==
    /\ req[r].pc = "line_commit"
    /\ LET row == req[r].rows[req[r].k]
       IN  /\ order_items' = order_items \cup
                  {[order_id |-> req[r].order, item_id |-> row.item_id,
                    quantity |-> row.quantity]}
           /\ cart_item' = {c \in cart_item :
                  ~(c.user_id = req[r].user /\ c.item_id = row.item_id)}
           /\ stock_qty' = DeductStock(row)
    /\ req' = [req EXCEPT ![r].k = @ + 1,
                          ![r].pc = IF req[r].k = Len(req[r].rows)
                                    THEN "finish" ELSE "line_load"]
    /\ UNCHANGED <<orders, audit_logs, veh, active_connections, mon, inbox>>

\* payment.py 114-134: audit record and the response
confirm_payment_finish(r) ==
    /\ req[r].pc = "finish"
    /\ audit_logs' = audit_logs \cup
           {[action_type |-> "order_created", target_id |-> req[r].order]}
    /\ req' = [req EXCEPT ![r].pc = "done",
                          ![r].response =
                              ConfirmPaymentResponse([orderId |-> req[r].order])]
    /\ UNCHANGED <<stock_qty, cart_item, orders, order_items, veh,
                   active_connections, mon, inbox>>

(* --------------------------- cancel_order ------------------------------ *)
\* cancel_order_begin loading the order by id alone and refusing a caller who
\* is not its owner
cancel_order_begin_forbidden(r, u, o) ==
    /\ req[r].pc = "idle"
    /\ LET base == [IdleReq EXCEPT !.kind = "cancel", !.user = u, !.order = o]
           done(resp) == [base EXCEPT !.pc = "done", !.response = resp]
       IN  req' = [req EXCEPT ![r] =
                IF o \notin DOMAIN orders
                    THEN done(HTTPException(404, "Order not found"))
                ELSE IF orders[o].user_id # u
                    THEN done(HTTPException(403, "Forbidden"))
                ELSE IF orders[o].status # PACKING
                    THEN done(HTTPException(400, orders[o].status))
                ELSE [base EXCEPT !.pc = "cancel_commit"]]
    /\ UNCHANGED <<db, veh, active_connections, mon, inbox>>

\* cancel_order_begin without the status check of orders.py 85
cancel_order_begin_any_status(r, u, o) ==
    /\ req[r].pc = "idle"
    /\ LET base == [IdleReq EXCEPT !.kind = "cancel", !.user = u, !.order = o]
           done(resp) == [base EXCEPT !.pc = "done", !.response = resp]
       IN  req' = [req EXCEPT ![r] =
                IF o \notin DOMAIN orders \/ orders[o].user_id # u
                    THEN done(HTTPException(404, "Order not found"))
                ELSE [base EXCEPT !.pc = "cancel_commit"]]
    /\ UNCHANGED <<db, veh, active_connections, mon, inbox>>

\* orders.py 73-89: the order is loaded by id and owner, its status checked
cancel_order_begin(r, u, o) ==
    /\ req[r].pc = "idle"
    /\ LET base == [IdleReq EXCEPT !.kind = "cancel", !.user = u, !.order = o]
           done(resp) == [base EXCEPT !.pc = "done", !.response = resp]
       IN  req' = [req EXCEPT ![r] =
                IF o \notin DOMAIN orders \/ orders[o].user_id # u
                    THEN done(HTTPException(404, "Order not found"))
                ELSE IF orders[o].status # PACKING
                    THEN done(HTTPException(400, orders[o].status))
                ELSE [base EXCEPT !.pc = "cancel_commit"]]
    /\ UNCHANGED <<db, veh, active_connections, mon, inbox>>

\* orders.py 95-99: UPDATE orders SET status = 'canceled' WHERE id = ?; a
\* row that is gone makes the flush raise StaleDataError
cancel_order_commit(r) ==
    /\ req[r].pc = "cancel_commit"
    /\ IF req[r].order \in DOMAIN orders
       THEN /\ orders' = [orders EXCEPT ![req[r].order].status = CANCELED]
            /\ req' = [req EXCEPT ![r].pc = "cancel_load"]
       ELSE /\ orders' = orders
            /\ req' = [req EXCEPT ![r].pc = "done",
                                  ![r].response = HTTPException(500, "stale_data")]
    /\ UNCHANGED <<stock_qty, cart_item, order_items, audit_logs, veh,
                   active_connections, mon, inbox>>

\* orders.py 102-104: the order items and their items are loaded
cancel_order_load(r) ==
    /\ req[r].pc = "cancel_load"
    /\ req' = [req EXCEPT ![r].pc = "cancel_restore",
                          ![r].rows = LoadOrderItems(req[r].order)]
    /\ UNCHANGED <<db, veh, active_connections, mon, inbox>>

\* RestoreStock giving back one unit for a line whatever its quantity
RestoreStock_unit(rows) ==
    [i \in Items |->
        IF \E n \in 1..Len(rows) : rows[n].item_id = i /\ rows[n].quantity # 0
        THEN LET n == CHOOSE m \in 1..Len(rows) : rows[m].item_id = i
             IN  rows[n].stock_qty + 1
        ELSE stock_qty[i]]

\* the UPDATEs of items the flush emits for item.stock_qty += oi.quantity
RestoreStock(rows) ==
    [i \in Items |->
        IF \E n \in 1..Len(rows) : rows[n].item_id = i /\ rows[n].quantity # 0
        THEN LET n == CHOOSE m \in 1..Len(rows) : rows[m].item_id = i
             IN  rows[n].stock_qty + rows[n].quantity
        ELSE stock_qty[i]]

\* orders.py 106-111
cancel_order_restore(r) ==
    /\ req[r].pc = "cancel_restore"
    /\ stock_qty' = RestoreStock(req[r].rows)
    /\ req' = [req EXCEPT ![r].pc = "cancel_finish"]
    /\ UNCHANGED <<cart_item, orders, order_items, audit_logs, veh,
                   active_connections, mon, inbox>>

\* orders.py 113-171: audit record, then the response is built from the
\* order as it is loaded again after the commit
cancel_order_finish(r) ==
    /\ req[r].pc = "cancel_finish"
    /\ audit_logs' = audit_logs \cup
           {[action_type |-> "order_canceled", target_id |-> req[r].order]}
    /\ req' = [req EXCEPT ![r].pc = "done",
                          ![r].response =
                              IF req[r].order \in DOMAIN orders
                              THEN [NoResponse EXCEPT
                                        !.code = 200,
                                        !.detail = orders[req[r].order].status,
                                        !.order_id = req[r].order]
                              ELSE HTTPException(500, "object_deleted")]
    /\ UNCHANGED <<stock_qty, cart_item, orders, order_items, veh,
                   active_connections, mon, inbox>>

(* ---------------------------- update_cart ------------------------------ *)
\* cart.py 51-53: the caller's cart row of the item, if there is one
update_cart_begin(r, u, i, q) ==
    /\ req[r].pc = "idle"
    /\ LET found == {c \in CartRows(u) : c.item_id = i}
       IN  req' = [req EXCEPT ![r] =
                [IdleReq EXCEPT !.kind = "cart", !.user = u, !.item = i,
                                !.quantity = q, !.pc = "cart_commit",
                                !.rows = IF found = {} THEN <<>>
                                         ELSE <<CHOOSE c \in found : TRUE>>]]
    /\ UNCHANGED <<db, veh, active_connections, mon, inbox>>

\* cart.py 59-94: the loaded row is deleted or its quantity written, or a new
\* row is added with the quantity of the payload; commit.  The DELETE of a
\* row that is gone only warns, the UPDATE of one raises StaleDataError
update_cart_commit(r) ==
    /\ req[r].pc = "cart_commit"
    /\ LET q == req[r].quantity
           new == [user_id |-> req[r].user, item_id |-> req[r].item, quantity |-> q]
       IN  IF req[r].rows = <<>>
           THEN /\ cart_item' = cart_item \cup {new}
                /\ req' = [req EXCEPT ![r].pc = "cart_finish"]
           ELSE IF q <= 0
           THEN /\ cart_item' = cart_item \ {req[r].rows[1]}
                /\ req' = [req EXCEPT ![r].pc = "cart_finish"]
           ELSE IF req[r].rows[1] \in cart_item \/ q = req[r].rows[1].quantity
           THEN /\ cart_item' = IF req[r].rows[1] \in cart_item
                                 THEN (cart_item \ {req[r].rows[1]}) \cup {new}
                                 ELSE cart_item
                /\ req' = [req EXCEPT ![r].pc = "cart_finish"]
           ELSE /\ cart_item' = cart_item
                /\ req' = [req EXCEPT ![r].pc = "done",
                                      ![r].response = HTTPException(500, "stale_data")]
    /\ UNCHANGED <<stock_qty, orders, order_items, audit_logs, veh,
                   active_connections, mon, inbox>>

\* cart.py 96-108: audit record with the item as target, and the answer
update_cart_finish(r) ==
    /\ req[r].pc = "cart_finish"
    /\ audit_logs' = audit_logs \cup
           {[action_type |-> IF req[r].rows = <<>> THEN "cart_item_added"
                             ELSE IF req[r].quantity <= 0 THEN "cart_item_removed"
                             ELSE "cart_item_updated",
             target_id |-> req[r].item]}
    /\ req' = [req EXCEPT ![r].pc = "done",
                          ![r].response = [NoResponse EXCEPT !.code = 201,
                                                             !.detail = "ok"]]
    /\ UNCHANGED <<stock_qty, cart_item, orders, order_items, veh,
                   active_connections, mon, inbox>>

(* ---------------------------- order_route ------------------------------ *)
\* order_route answering for every order that exists, whoever asks
order_route_any_owner(r, u, o) ==
    /\ req[r].pc = "idle"
    /\ LET done(resp) == [IdleReq EXCEPT !.kind = "route", !.user = u, !.order = o,
                                         !.pc = "done", !.response = resp]
       IN  req' = [req EXCEPT ![r] =
                IF o \notin DOMAIN orders
                    THEN done(HTTPException(404, "not_found"))
                ELSE done(OrderRouteResponse(orders[o].polyline))]
    /\ UNCHANGED <<db, veh, active_connections, mon, inbox>>

\* vehicle.py 119-131: the order is loaded by id; a missing order and an order
\* of another user raise the same 404; the coroutine never awaits
order_route(r, u, o) ==
    /\ req[r].pc = "idle"
    /\ LET done(resp) == [IdleReq EXCEPT !.kind = "route", !.user = u, !.order = o,
                                         !.pc = "done", !.response = resp]
       IN  req' = [req EXCEPT ![r] =
                IF o \notin DOMAIN orders \/ orders[o].user_id # u
                    THEN done(HTTPException(404, "not_found"))
                ELSE done(OrderRouteResponse(orders[o].polyline))]
    /\ UNCHANGED <<db, veh, active_connections, mon, inbox>>

(* ------------------------- ws/deliver (vehicle) ------------------------ *)
\* the delivery_vehicle rows: every known vehicle is READY (column default)
VehicleStatus(v) == READY

\* db.get(DeliveryVehicle, id) and verify_password on the first frame
Authenticated(id, secret_ok) == id \in Vehicles /\ secret_ok

\* db.query(Order).filter_by(status=OrderStatus.PACKING).all(), the rows as
\* the Session keeps them
LoadPacking ==
    LET ids == SortedSeq({o \in DOMAIN orders : orders[o].status = PACKING})
    IN  [n \in 1..Len(ids) |-> [id |-> ids[n], user_id |-> orders[ids[n]].user_id]]

\* route_polyline.points of the route a planner call returns: every response
\* carries its own polyline
RoutePolyline(s) == s

\* ws_deliver_frame looking the vehicle up and never verifying the secret
ws_deliver_frame_known_id(s, id, secret_ok) ==
    /\ veh[s].pc = "recv"
    /\ veh[s].frames < MaxFrames
    /\ \A t \in 1..(s - 1) : veh[t].frames > 0
    /\ LET v == IF veh[s].vehicle = NULL THEN id ELSE veh[s].vehicle
           got == IF veh[s].vehicle = NULL
                  THEN [veh[s] EXCEPT !.frames = @ + 1, !.id = id,
                                      !.secret_ok = secret_ok]
                  ELSE [veh[s] EXCEPT !.frames = @ + 1]
       IN  veh' = [veh EXCEPT ![s] =
                IF veh[s].vehicle = NULL /\ id \notin Vehicles
                    THEN [got EXCEPT !.pc = "closed"]
                ELSE IF VehicleStatus(v) = READY
                    THEN [got EXCEPT !.pc = "planning", !.vehicle = v,
                                     !.orders = LoadPacking,
                                     !.routes = "none", !.visited = {}]
                ELSE [got EXCEPT !.vehicle = v]]
    /\ UNCHANGED <<db, req, active_connections, mon, inbox>>

\* vehicle.py 70-92: a frame arrives; the first one authenticates; while the
\* vehicle is READY the packing orders are read and the planner is awaited
ws_deliver_frame(s, id, secret_ok) ==
    /\ veh[s].pc = "recv"
    /\ veh[s].frames < MaxFrames
    /\ \A t \in 1..(s - 1) : veh[t].frames > 0
    /\ LET v == IF veh[s].vehicle = NULL THEN id ELSE veh[s].vehicle
           got == IF veh[s].vehicle = NULL
                  THEN [veh[s] EXCEPT !.frames = @ + 1, !.id = id,
                                      !.secret_ok = secret_ok]
                  ELSE [veh[s] EXCEPT !.frames = @ + 1]
       IN  veh' = [veh EXCEPT ![s] =
                IF veh[s].vehicle = NULL /\ ~Authenticated(id, secret_ok)
                    THEN [got EXCEPT !.pc = "closed"]
                ELSE IF VehicleStatus(v) = READY
                    THEN [got EXCEPT !.pc = "planning", !.vehicle = v,
                                     !.orders = LoadPacking,
                                     !.routes = "none", !.visited = {}]
                ELSE [got EXCEPT !.vehicle = v]]
    /\ UNCHANGED <<db, req, active_connections, mon, inbox>>

\* vehicle.py 70, 113-117: receive_json raises when the vehicle disconnects
ws_deliver_disconnect(s) ==
    /\ veh[s].pc = "recv"
    /\ veh[s].frames > 0
    /\ veh' = [veh EXCEPT ![s].pc = "closed"]
    /\ UNCHANGED <<db, req, active_connections, mon, inbox>>

\* AssignOrders taking the visits in the order the response lists them: the
\* k-th visit is given to the k-th order of the request
AssignOrders_by_position(loaded, visits, v, polyline) ==
    [o \in DOMAIN orders |->
        IF \E n \in 1..Cardinality(visits) : loaded[n].id = o
        THEN [orders[o] EXCEPT !.delivery_vehicle_id = v, !.status = SHIPPED,
                               !.polyline = polyline]
        ELSE orders[o]]

\* the rows the commit of vehicle.py 106 updates: every visited order, by
\* primary key, with no condition on its current status
AssignOrders(loaded, visits, v, polyline) ==
    [o \in DOMAIN orders |->
        IF \E n \in visits : loaded[n].id = o
        THEN [orders[o] EXCEPT !.delivery_vehicle_id = v, !.status = SHIPPED,
                               !.polyline = polyline]
        ELSE orders[o]]

\* ws_deliver_assign writing the assignments of the visits it was given even
\* when the planner call raised
ws_deliver_assign_partial(s, ok, visits, polyline) ==
    /\ veh[s].pc = "planning"
    /\ visits \subseteq 1..Len(veh[s].orders)
    /\ LET loaded == veh[s].orders
           stale == \E n \in visits : loaded[n].id \notin DOMAIN orders
           users == {loaded[n].user_id : n \in visits}
           ids == {loaded[n].id : n \in visits}
       IN  IF stale
           THEN /\ veh' = [veh EXCEPT ![s].pc = "closed", ![s].orders = <<>>,
                                      ![s].routes = IF ok THEN "returned" ELSE "raised",
                                      ![s].visited = IF ok THEN ids ELSE {}]
                /\ orders' = orders
           ELSE /\ orders' = AssignOrders(loaded, visits, veh[s].vehicle, polyline)
                /\ veh' = [veh EXCEPT ![s] =
                        IF ~ok
                        THEN [@ EXCEPT !.pc = "closed", !.orders = <<>>,
                                       !.routes = "raised"]
                        ELSE [@ EXCEPT !.pc = IF users = {} THEN "recv" ELSE "notify",
                                       !.orders = <<>>,
                                       !.affected_users = users,
                                       !.routes = IF users = {} THEN "none"
                                                  ELSE "returned",
                                       !.visited = ids]]
    /\ UNCHANGED <<stock_qty, cart_item, order_items, audit_logs, req,
                   active_connections, mon, inbox>>

\* vehicle.py 92-106: the planner answers (route_optimization.py 61-63) with
\* one route for the one vehicle of the request, or raises; the visited
\* orders are written from the loaded objects and committed
ws_deliver_assign(s, ok, visits, polyline) ==
    /\ veh[s].pc = "planning"
    /\ visits \subseteq 1..Len(veh[s].orders)
    /\ LET loaded == veh[s].orders
           stale == \E n \in visits : loaded[n].id \notin DOMAIN orders
           users == {loaded[n].user_id : n \in visits}
           ids == {loaded[n].id : n \in visits}
       IN  IF ~ok
           THEN \* the exception ends the handler (vehicle.py 113-117)
                /\ veh' = [veh EXCEPT ![s].pc = "closed", ![s].orders = <<>>,
                                      ![s].routes = "raised"]
                /\ orders' = orders
           ELSE IF stale
           THEN \* the flush raises StaleDataError, nothing is committed and
                \* the exception ends the handler
                /\ veh' = [veh EXCEPT ![s].pc = "closed", ![s].orders = <<>>,
                                      ![s].routes = "returned",
                                      ![s].visited = ids]
                /\ orders' = orders
           ELSE /\ orders' = AssignOrders(loaded, visits, veh[s].vehicle, polyline)
                /\ veh' = [veh EXCEPT ![s].pc = IF users = {} THEN "recv" ELSE "notify",
                                      ![s].orders = <<>>,
                                      ![s].affected_users = users,
                                      ![s].routes = IF users = {} THEN "none"
                                                    ELSE "returned",
                                      ![s].visited = ids]
    /\ UNCHANGED <<stock_qty, cart_item, order_items, audit_logs, req,
                   active_connections, mon, inbox>>

\* vehicle.py 33-40 ConnectionManager.send_message: the socket registered for
\* the user, if any, is sent to; when the send raises, the socket is broken
\* and disconnect(user_id) removes the user's entry
send_message(u, sent) ==
    LET websocket == active_connections[u]
    IN  IF websocket = NULL
        THEN UNCHANGED <<active_connections, mon>>
        ELSE IF sent
        THEN UNCHANGED <<active_connections, mon>>
        ELSE /\ active_connections' = [active_connections EXCEPT ![u] = NULL]
             /\ mon' = [mon EXCEPT ![websocket].pc = "broken"]

\* ws_deliver_notify with the exception of a failed send leaving
\* send_message and ending the vehicle's handler
ws_deliver_notify_raises(s, u, sent) ==
    /\ veh[s].pc = "notify"
    /\ u \in veh[s].affected_users
    /\ send_message(u, sent)
    /\ inbox' = IF active_connections[u] # NULL /\ sent
                THEN [inbox EXCEPT ![u] = @ + 1] ELSE inbox
    /\ veh' = [veh EXCEPT ![s] =
                IF active_connections[u] # NULL /\ ~sent
                THEN [@ EXCEPT !.affected_users = {}, !.pc = "closed"]
                ELSE IF veh[s].affected_users = {u}
                THEN [@ EXCEPT !.affected_users = {}, !.pc = "recv",
                               !.routes = "none", !.visited = {}]
                ELSE [@ EXCEPT !.affected_users = @ \ {u}]]
    /\ UNCHANGED <<db, req>>

\* vehicle.py 108-111: the orderUpdate push to one affected user
ws_deliver_notify(s, u, sent) ==
    /\ veh[s].pc = "notify"
    /\ u \in veh[s].affected_users
    /\ send_message(u, sent)
    /\ inbox' = IF active_connections[u] # NULL /\ sent
                THEN [inbox EXCEPT ![u] = @ + 1] ELSE inbox
    /\ veh' = [veh EXCEPT ![s] =
                IF veh[s].affected_users = {u}
                \* back at receive_json: routes and the loop variables are dead
                THEN [@ EXCEPT !.affected_users = {}, !.pc = "recv",
                               !.routes = "none", !.visited = {}]
                ELSE [@ EXCEPT !.affected_users = @ \ {u}]]
    /\ UNCHANGED <<db, req>>

(* ------------------------- ws/monitor (observer) ----------------------- *)
\* vehicle.py 17-27, 49 ConnectionManager.connect: the socket is registered
\* under the user of its token, over whatever entry the user had
ws_monitor_connect(c, u) ==
    /\ mon[c].pc = "accept"
    /\ \A d \in 1..(c - 1) : mon[d].pc # "accept"
    /\ mon' = [mon EXCEPT ![c] = [pc |-> "open", user |-> u]]
    /\ active_connections' = [active_connections EXCEPT ![u] = c]
    /\ UNCHANGED <<db, req, veh, inbox>>

\* vehicle.py 53-54: a text frame is echoed to the socket registered for the
\* handler's user
ws_monitor_echo(c, sent) ==
    /\ mon[c].pc = "open"
    /\ send_message(mon[c].user, sent)
    /\ UNCHANGED <<db, req, veh, inbox>>

\* vehicle.py 29-31, 55-57: receive_text raises WebSocketDisconnect and
\* ConnectionManager.disconnect deletes the entry of the handler's user
ws_monitor_disconnect(c) ==
    /\ mon[c].pc \in {"open", "broken"}
    /\ mon' = [mon EXCEPT ![c] = [pc |-> "closed", user |-> NULL]]
    /\ active_connections' = [active_connections EXCEPT ![mon[c].user] = NULL]
    /\ UNCHANGED <<db, req, veh, inbox>>

\* vehicle.py 51-57: receive_text raises something other than
\* WebSocketDisconnect (a frame that carries no text); no handler catches it
\* and the coroutine ends with the registry as it is
ws_monitor_error(c) ==
    /\ mon[c].pc \in {"open", "broken"}
    /\ mon' = [mon EXCEPT ![c] = [pc |-> "closed", user |-> NULL]]
    /\ UNCHANGED <<db, req, veh, active_connections, inbox>>

(* ------------------------------- Next ---------------------------------- *)
\* request slots are taken in order
Free(r) == \A q \in 1..(r - 1) : req[q].pc # "idle"

OrderIdInputs == 1..MaxReq

\* a request arrives and its handler starts
HttpBegin(r) ==
    \/ \E u \in Users, p \in Intents, st \in {"succeeded", "processing"} :
          confirm_payment_begin(r, u, p, st)
    \/ \E u \in Users, o \in OrderIdInputs : cancel_order_begin(r, u, o)

ConfirmStep(r) ==
    \/ confirm_payment_create(r)
    \/ confirm_payment_load(r)
    \/ confirm_payment_reject(r)
    \/ confirm_payment_raise(r)
    \/ confirm_payment_line_load(r)
    \/ confirm_payment_line_commit(r)
    \/ confirm_payment_finish(r)

CancelStep(r) ==
    \/ cancel_order_commit(r)
    \/ cancel_order_load(r)
    \/ cancel_order_restore(r)
    \/ cancel_order_finish(r)

\* the HTTP handlers, each in its own thread
HttpNext ==
    \E r \in Reqs : (Free(r) /\ HttpBegin(r)) \/ ConfirmStep(r) \/ CancelStep(r)

\* the ws/monitor sockets
MonitorNext ==
    \/ \E c \in Chans, u \in Users : ws_monitor_connect(c, u)
    \/ \E c \in Chans, sent \in BOOLEAN : ws_monitor_echo(c, sent)
    \/ \E c \in Chans : ws_monitor_disconnect(c)
    \/ \E c \in Chans : ws_monitor_error(c)

\* the websocket handlers, coroutines of the event loop
WsNext ==
    \/ \E s \in Sessions, id \in 1..(NumVehicles + 1), secret_ok \in BOOLEAN :
          ws_deliver_frame(s, id, secret_ok)
    \/ \E s \in Sessions : ws_deliver_disconnect(s)
    \/ \E s \in Sessions, ok \in BOOLEAN :
          \E visits \in SUBSET (1..Len(veh[s].orders)) :
              ws_deliver_assign(s, ok, visits, RoutePolyline(s))
    \/ \E s \in Sessions, u \in Users, sent \in BOOLEAN : ws_deliver_notify(s, u, sent)
    \/ MonitorNext

\* order ids a customer may ask the route of, one of them unknown
RouteIdInputs == 1..(InitOrders + 1)

\* GET /api/vehicle/order-route/{order_id}
RouteNext ==
    \E r \in Reqs, u \in Users, o \in RouteIdInputs : Free(r) /\ order_route(r, u, o)

\* CartItemIn.quantity is any integer
QuantityInputs == (0 - 1)..MaxQty

CartStep(r) == update_cart_commit(r) \/ update_cart_finish(r)

\* POST /api/cart
CartNext ==
    \E r \in Reqs :
        \/ \E u \in Users, i \in Items, q \in QuantityInputs :
              Free(r) /\ update_cart_begin(r, u, i, q)
        \/ CartStep(r)

Next == HttpNext \/ WsNext \/ RouteNext \/ CartNext

\* the whole application: app/main.py mounts every router
Spec == Init /\ [][Next]_vars

\* the confirmations and cancellations alone, overlapping freely
FulfilSpec == Init /\ [][HttpNext]_vars

\* no handler running
Quiet == \A r \in Reqs : req[r].pc \in {"idle", "done"}

\* the confirmations and cancellations one call after the other
SeqNext ==
    \E r \in Reqs : (Free(r) /\ Quiet /\ HttpBegin(r)) \/ ConfirmStep(r) \/ CancelStep(r)

SeqSpec == Init /\ [][SeqNext]_vars

\* one ws/deliver socket
DeliverNext(s) ==
    \/ \E id \in 1..(NumVehicles + 1), secret_ok \in BOOLEAN :
          ws_deliver_frame(s, id, secret_ok)
    \/ ws_deliver_disconnect(s)
    \/ \E ok \in BOOLEAN, visits \in SUBSET (1..Len(veh[s].orders)) :
          ws_deliver_assign(s, ok, visits, RoutePolyline(s))
    \/ \E u \in Users, sent \in BOOLEAN : ws_deliver_notify(s, u, sent)

\* cancel_order calls on every request slot
CancelAllNext ==
    \E r \in Reqs :
        \/ \E u \in Users, o \in OrderIdInputs : Free(r) /\ cancel_order_begin(r, u, o)
        \/ CancelStep(r)

\* cancel_order calls on the first MaxCancel request slots
CancelNext ==
    \E r \in 1..MaxCancel :
        \/ \E u \in Users, o \in OrderIdInputs : Free(r) /\ cancel_order_begin(r, u, o)
        \/ CancelStep(r)

\* cancel_order against every vehicle socket, over orders that are already
\* packing
DispatchSpec == DispatchInit /\ [][CancelNext \/ \E s \in Sessions : DeliverNext(s)]_vars

\* overlapping cancel_order calls against one vehicle socket, over orders that
\* are already packing
CancelSpec == DispatchInit /\ [][CancelAllNext \/ DeliverNext(1)]_vars

\* the vehicle and observer sockets alone, over orders that are packing
WsSpec == DispatchInit /\ [][WsNext]_vars

\* one vehicle socket and the observer sockets, over orders that are packing
ObserveSpec == DispatchInit /\ [][DeliverNext(1) \/ MonitorNext]_vars

\* update_cart calls one after the other
CartSeqNext ==
    \E r \in Reqs :
        \/ \E u \in Users, i \in Items, q \in QuantityInputs :
              Free(r) /\ Quiet /\ update_cart_begin(r, u, i, q)
        \/ CartStep(r)

CartSpec == Init /\ [][CartSeqNext]_vars

\* order_route calls against one vehicle socket, over orders that are packing
RouteSpec == DispatchInit /\ [][RouteNext \/ DeliverNext(1)]_vars

\* confirm_payment calls on every request slot
ConfirmNext ==
    \E r \in Reqs :
        \/ \E u \in Users, p \in Intents, st \in {"succeeded", "processing"} :
              Free(r) /\ confirm_payment_begin(r, u, p, st)
        \/ ConfirmStep(r)

\* the state after the customer of intent 1 has confirmed a cart holding one
\* unit of one item: the order is packing, the other customers' carts are
\* filled
IntakeInit ==
    /\ stock_qty \in {f \in [Items -> 0..InitStock] : f[InitOrderItem(1)] < InitStock}
    /\ cart_item \in {c \in InitCarts : \A row \in c : row.user_id # IntentCustomer(1)}
    /\ orders = (1 :> NewOrder(IntentCustomer(1), 1))
    /\ order_items = {[order_id |-> 1, item_id |-> InitOrderItem(1), quantity |-> 1]}
    /\ audit_logs = {[action_type |-> "order_created", target_id |-> 1]}
    /\ req = [r \in Reqs |-> IdleReq]
    /\ veh = [s \in Sessions |-> IdleVeh]
    /\ active_connections = [u \in Users |-> NULL]
    /\ mon = [c \in Chans |-> IdleMon]
    /\ inbox = [u \in Users |-> 0]

\* overlapping confirm_payment calls against one vehicle socket, over one
\* order that is packing
IntakeSpec == IntakeInit /\ [][ConfirmNext \/ DeliverNext(1)]_vars

(* ------------------------------ claims --------------------------------- *)
ConfirmCalls == {r \in Reqs : req[r].kind = "confirm"}
CancelCalls == {r \in Reqs : req[r].kind = "cancel"}

\* the audit record cancel_order writes once the inventory is released
CancelRecorded(o) == [action_type |-> "order_canceled", target_id |-> o] \in audit_logs

\* C1: a cancel and a dispatch assignment racing on one packing order never
\* both take effect: no order is assigned to a vehicle and also canceled with
\* its inventory released.
C1_CancelDispatchExclusive ==
    \A o \in DOMAIN orders :
        ~(orders[o].delivery_vehicle_id # NULL /\ CancelRecorded(o))

\* C2: the stock of every item is never negative, whatever confirmations and
\* cancellations overlap.
C2_StockNonNegative == \A i \in Items : stock_qty[i] >= 0

\* a rejected or refused call of confirm_payment that never reached the
\* lookup of the order
Refused(q) == q.response.detail \in {"unauthorized", "payment_not_successful"}

\* C3: a second confirmation with the same payment intent, made after the
\* first one succeeded, is answered with success and the same order id, and
\* there is exactly one order for the intent.
C3_ConfirmIdempotent ==
    \A r1, r2 \in ConfirmCalls :
        (/\ r1 < r2
         /\ req[r1].intent = req[r2].intent /\ req[r1].user = req[r2].user
         /\ req[r1].response.code = 200
         /\ req[r2].pc = "done" /\ ~Refused(req[r2]))
        => /\ req[r2].response.code = 200
           /\ req[r2].response.order_id = req[r1].response.order_id
           /\ Cardinality(OrdersOfIntent(req[r1].intent)) = 1

\* C4: the orders table never holds two orders with the same payment intent.
C4_OneOrderPerIntent == \A p \in Intents : Cardinality(OrdersOfIntent(p)) <= 1

\* C5: once an order is shipped with a vehicle, no later write changes its
\* vehicle id or its polyline.
C5_AssignmentStable ==
    [][\A o \in DOMAIN orders :
          orders[o].status = SHIPPED
          => /\ o \in DOMAIN orders'
             /\ orders'[o].delivery_vehicle_id = orders[o].delivery_vehicle_id
             /\ orders'[o].polyline = orders[o].polyline]_vars

\* C6: an order carries a vehicle id and a polyline exactly when its status is
\* shipped or delivered.
C6_VehicleIffShipped ==
    \A o \in DOMAIN orders :
        (orders[o].delivery_vehicle_id # NULL /\ orders[o].polyline # NULL)
        <=> orders[o].status \in {SHIPPED, DELIVERED}

\* C7: the committed tables never show the order of a confirmation while cart
\* lines of that confirmation are still waiting to become order lines and to
\* be deducted from the stock.
C7_ConfirmAtomic ==
    \A r \in ConfirmCalls :
        (req[r].order # NULL /\ req[r].order \in DOMAIN orders)
        => CartRows(req[r].user) = {}

RejectedConfirm(q) ==
    /\ q.kind = "confirm"
    /\ q.response.code = 400
    /\ q.response.detail \in {"insufficient_stock", "weight_exceeded"}

\* C8: once a confirmation has been rejected for stock or weight, no order
\* exists for its payment intent.
C8_RejectedLeavesNoOrder ==
    \A r \in Reqs : RejectedConfirm(req[r]) => OrdersOfIntent(req[r].intent) = {}

\* the call whose handler takes the step
Acts(r) == req'[r] # req[r]

\* C9: a confirmation rejected for stock or weight leaves every item's stock
\* as it was: no step a confirmation takes before its deduction loop writes
\* the stock, a rejected confirmation never entered that loop, and the
\* InsufficientStock answer names the failing item with the stock it has when
\* the answer is given.
C9_RejectedLeavesStock ==
    [][\A r \in Reqs :
          /\ (Acts(r) /\ req'[r].kind = "confirm" /\ req'[r].k = 0)
             => stock_qty' = stock_qty
          /\ RejectedConfirm(req'[r]) => req'[r].k = 0
          /\ (Acts(r) /\ RejectedConfirm(req'[r])
                  /\ req'[r].response.detail = "insufficient_stock")
             => LET row == req[r].rows[req[r].short]
                IN  /\ row.quantity > row.stock_qty
                    /\ req'[r].response.item_id = row.item_id
                    /\ req'[r].response.available = stock_qty'[row.item_id]]_vars

\* one call was rejected for weight and another for stock
C9_Witness ==
    \E r1, r2 \in Reqs :
        /\ RejectedConfirm(req[r1]) /\ req[r1].response.detail = "weight_exceeded"
        /\ RejectedConfirm(req[r2]) /\ req[r2].response.detail = "insufficient_stock"
        /\ req[r2].response.available = stock_qty[req[r2].response.item_id]

\* C10: a successful confirmation turns every cart line into one order line
\* of the same quantity, lowers that item's stock by exactly this quantity (at
\* least one), and leaves the cart empty.
C10_ConfirmReservesLines ==
    [][\A r \in Reqs :
          /\ (Acts(r) /\ req[r].pc = "line_commit")
             => \E c \in CartRows(req[r].user) :
                    /\ c.item_id = req[r].rows[req[r].k].item_id
                    /\ order_items' \ order_items =
                           {[order_id |-> req[r].order, item_id |-> c.item_id,
                             quantity |-> c.quantity]}
                    /\ order_items \subseteq order_items'
                    /\ cart_item' = cart_item \ {c}
                    /\ c.quantity >= 1
                    /\ stock_qty' = [stock_qty EXCEPT ![c.item_id] = @ - c.quantity]
          /\ (Acts(r) /\ req'[r].kind = "confirm" /\ req'[r].response.code = 200)
             => /\ {c \in cart_item' : c.user_id = req'[r].user} = {}
                /\ req'[r].response.order_id \in DOMAIN orders'
                /\ Cardinality({oi \in order_items' :
                                   oi.order_id = req'[r].response.order_id})
                       = Len(req'[r].rows)
                /\ req'[r].k = Len(req'[r].rows) + 1]_vars

\* the items of the rows a handler loaded
RowItems(rows) == {rows[n].item_id : n \in 1..Len(rows)}

\* C11: a successful confirmation directly followed by the cancellation of
\* its order leaves every item of the cart with the stock the confirmation
\* found, and neither call writes the stock of any other item.
C11_ConfirmCancelRoundTrip ==
    /\ [](\A r \in Reqs \ {MaxReq} :
            (/\ req[r].kind = "confirm" /\ req[r].response.code = 200
             /\ req[r + 1].kind = "cancel" /\ req[r + 1].response.code = 200
             /\ req[r + 1].order = req[r].order)
            => \A n \in 1..Len(req[r].rows) :
                   stock_qty[req[r].rows[n].item_id] = req[r].rows[n].stock_qty)
    /\ [][\A r \in Reqs :
             Acts(r) => \A i \in Items \ RowItems(req'[r].rows) :
                            stock_qty'[i] = stock_qty[i]]_vars

\* a cart of two lines, one of them of MaxQty units, was confirmed and the
\* order canceled by the next call
C11_Witness ==
    \E r \in Reqs \ {MaxReq} :
        /\ req[r].kind = "confirm" /\ req[r].response.code = 200
        /\ req[r + 1].kind = "cancel" /\ req[r + 1].response.code = 200
        /\ req[r + 1].order = req[r].order
        /\ Len(req[r].rows) = 2
        /\ \E n \in 1..2 : req[r].rows[n].quantity = MaxQty

\* C12: cancel_order by the owner of an order that is shipped, delivered or
\* canceled answers 400 naming that status and writes nothing, and a handler
\* that has answered takes no further step.
C12_CancelRejectedOutsidePacking ==
    [][\A r \in Reqs :
          /\ (/\ Acts(r) /\ req[r].pc = "idle" /\ req'[r].kind = "cancel"
               /\ req'[r].order \in DOMAIN orders
               /\ orders[req'[r].order].user_id = req'[r].user
               /\ orders[req'[r].order].status \in {SHIPPED, DELIVERED, CANCELED})
             => /\ req'[r].pc = "done"
                /\ req'[r].response.code = 400
                /\ req'[r].response.detail = orders[req'[r].order].status
                /\ db' = db
          /\ req[r].pc = "done" => req'[r] = req[r]]_vars

\* the owner's second cancel of an order was refused as already canceled
C12_Witness ==
    \E r1, r2 \in CancelCalls :
        /\ req[r1].order = req[r2].order /\ req[r1].user = req[r2].user
        /\ req[r1].response.code = 200
        /\ req[r2].response.code = 400 /\ req[r2].response.detail = CANCELED
        /\ orders[req[r2].order].status = CANCELED

\* C13: cancel_order on an order of another user answers exactly what it
\* answers for an order id that does not exist, 404 "Order not found", and
\* writes nothing.
C13_ForeignOrderNotFound ==
    [][\A r \in Reqs :
          (/\ Acts(r) /\ req[r].pc = "idle" /\ req'[r].kind = "cancel"
           /\ \/ req'[r].order \notin DOMAIN orders
              \/ orders[req'[r].order].user_id # req'[r].user)
          => /\ req'[r] = [IdleReq EXCEPT
                              !.kind = "cancel", !.user = req'[r].user,
                              !.order = req'[r].order, !.pc = "done",
                              !.response = HTTPException(404, "Order not found")]
             /\ db' = db]_vars

\* a user asked to cancel the packing order of another user
C13_Witness ==
    \E r \in CancelCalls :
        /\ req[r].pc = "done"
        /\ req[r].order \in DOMAIN orders
        /\ orders[req[r].order].user_id # req[r].user
        /\ orders[req[r].order].status = PACKING

\* C14: the committed tables never show an order as canceled while the
\* cancellation that wrote the status has still to give the order's
\* quantities back to the stock.
C14_CancelAtomic ==
    \A r \in CancelCalls :
        (req[r].order \in DOMAIN orders /\ orders[req[r].order].status = CANCELED)
        => req[r].pc \notin {"cancel_load", "cancel_restore"}

\* C15: a ws/deliver socket whose first frame names an unknown vehicle or a
\* secret that does not verify is closed with no vehicle and no table,
\* registry or inbox written by that frame; a closed socket takes no further
\* step; and every step that writes a vehicle id into an order is taken by a
\* socket whose first frame named that vehicle with a verifying secret.
C15_AuthFailureClosesChannel ==
    /\ [](\A s \in Sessions :
            (veh[s].frames > 0 /\ ~Authenticated(veh[s].id, veh[s].secret_ok))
            => (veh[s].pc = "closed" /\ veh[s].vehicle = NULL /\ veh[s].frames = 1))
    /\ [][\A s \in Sessions :
             /\ (veh'[s] # veh[s] /\ veh'[s].vehicle = NULL)
                => (db' = db /\ active_connections' = active_connections
                    /\ mon' = mon /\ inbox' = inbox)
             /\ veh[s].pc = "closed" => veh'[s] = veh[s]]_vars
    /\ [][\A o \in DOMAIN orders :
             (o \in DOMAIN orders'
              /\ orders'[o].delivery_vehicle_id # orders[o].delivery_vehicle_id)
             => \E s \in Sessions :
                    /\ veh[s].pc = "planning"
                    /\ Authenticated(veh[s].id, veh[s].secret_ok)
                    /\ orders'[o].delivery_vehicle_id = veh[s].id]_vars

\* one socket was closed for a wrong secret of a known vehicle while another
\* socket has shipped an order
C15_Witness ==
    \E s, t \in Sessions :
        /\ veh[s].pc = "closed" /\ veh[s].id \in Vehicles /\ ~veh[s].secret_ok
        /\ veh[t].vehicle # NULL
        /\ \E o \in DOMAIN orders : orders[o].delivery_vehicle_id = veh[t].vehicle

\* C16: when the planner returns routes to a ws/deliver socket, every visited
\* order that is packing becomes shipped with the socket's vehicle and a
\* polyline, the owners of the visited orders are the users to notify, and
\* each of them is pushed to once: the push reaches the owner exactly once
\* when the owner has an observer socket that is and stays open, and it
\* reaches nobody else.
C16_DispatchShipsAndNotifies ==
    [][\A s \in Sessions :
          /\ (veh[s].pc = "planning" /\ veh'[s].routes = "returned")
             => /\ \A o \in veh'[s].visited :
                       (o \in DOMAIN orders /\ orders[o].status = PACKING)
                       => /\ o \in DOMAIN orders'
                          /\ orders'[o].status = SHIPPED
                          /\ orders'[o].delivery_vehicle_id = veh[s].vehicle
                          /\ orders'[o].polyline # NULL
                /\ \A o \in veh'[s].visited :
                       (o \in DOMAIN orders /\ orders[o].status = PACKING)
                       => orders[o].user_id \in veh'[s].affected_users
          /\ (veh[s].pc = "notify" /\ veh'[s] # veh[s])
             => \E u \in veh[s].affected_users :
                    /\ veh'[s].affected_users = veh[s].affected_users \ {u}
                    /\ \A w \in Users \ {u} : inbox'[w] = inbox[w]
                    /\ (\E c \in Chans : /\ mon[c].pc = "open" /\ mon[c].user = u
                                         /\ mon'[c].pc = "open")
                       => inbox'[u] = inbox[u] + 1
                    /\ inbox'[u] \in {inbox[u], inbox[u] + 1}]_vars

\* C17: the step in which the planner call of a dispatch raises writes no
\* table, registry entry or inbox and leaves nobody to notify, and the socket
\* takes no step after it, so nothing is written later on its behalf.
C17_PlannerFailureMutatesNothing ==
    [][\A s \in Sessions :
          /\ (veh[s].pc = "planning" /\ veh'[s].routes = "raised")
             => /\ db' = db
                /\ active_connections' = active_connections
                /\ mon' = mon
                /\ inbox' = inbox
                /\ veh'[s].affected_users = {}
          /\ veh[s].routes = "raised" => veh'[s] = veh[s]]_vars

\* the planner raised for a dispatch that had read two packing orders, which
\* are still packing, while an owner is registered as observer
C17_Witness ==
    \E s \in Sessions :
        /\ veh[s].routes = "raised"
        /\ Cardinality({o \in DOMAIN orders : orders[o].status = PACKING}) = 2
        /\ \E o \in DOMAIN orders : active_connections[orders[o].user_id] # NULL

\* C18: a ws/deliver socket whose planner call raised is back at waiting for
\* its next frame, the channel still open.
C18_PlannerFailureKeepsSession ==
    \A s \in Sessions : veh[s].routes = "raised" => veh[s].pc = "recv"

\* C19: the assignments of a dispatch are committed by the step that ends the
\* planning, before any push; a push, delivered or not, writes no table and
\* takes exactly one owner off the list of those still to notify; the
\* socket goes on notifying while owners remain and then waits for its next
\* frame.
C19_PushFailureKeepsAssignment ==
    [][\A s \in Sessions :
          /\ (veh[s].pc = "planning" /\ veh'[s].pc = "notify")
             => /\ inbox' = inbox
                /\ \A o \in veh'[s].visited :
                       /\ orders'[o].status = SHIPPED
                       /\ orders'[o].delivery_vehicle_id = veh[s].vehicle
                       /\ orders'[o].polyline # NULL
          /\ (veh[s].pc = "notify" /\ veh'[s] # veh[s])
             => /\ db' = db
                /\ \E u \in veh[s].affected_users :
                       veh'[s].affected_users = veh[s].affected_users \ {u}
                /\ veh'[s].pc = IF veh'[s].affected_users = {} THEN "recv"
                                ELSE "notify"]_vars

\* a dispatch shipped the orders of two owners; the send to one of them
\* raised, the other one received the push, and the socket awaits its next
\* frame
C19_Witness ==
    \E s \in Sessions, u, w \in Users :
        /\ u # w
        /\ veh[s].pc = "recv" /\ veh[s].frames > 0
        /\ \E c \in Chans : mon[c].pc = "broken" /\ mon[c].user = u
        /\ inbox[u] = 0 /\ inbox[w] = 1
        /\ \A o \in DOMAIN orders :
               orders[o].status = SHIPPED /\ orders[o].delivery_vehicle_id = veh[s].vehicle
        /\ {orders[o].user_id : o \in DOMAIN orders} = {u, w}

\* C20: the registry holds an entry for a user exactly while an observer
\* socket of that user is open, and the entry is such a socket.
C20_RegistryTracksChannels ==
    \A u \in Users :
        /\ active_connections[u] # NULL
           <=> \E c \in Chans : mon[c].pc = "open" /\ mon[c].user = u
        /\ active_connections[u] # NULL
           => /\ mon[active_connections[u]].pc = "open"
              /\ mon[active_connections[u]].user = u

\* C21: the registry never holds the socket of a ws/monitor coroutine that
\* has ended, whether it ended on a disconnect or on any other exception.
C21_EndedTaskDeregistered ==
    \A u \in Users :
        active_connections[u] # NULL => mon[active_connections[u]].pc # "closed"

\* C22: order_route answers 200 only for an order that exists and belongs to
\* the caller, and then with that order's polyline; for an order of another
\* user it answers exactly what it answers for an unknown id, 404
\* "not_found"; and it writes no table, socket, registry entry or inbox.
C22_RouteOwnerOnly ==
    [][\A r \in Reqs :
          (Acts(r) /\ req'[r].kind = "route")
          => LET o == req'[r].order
                 u == req'[r].user
             IN  /\ db' = db /\ veh' = veh /\ mon' = mon /\ inbox' = inbox
                 /\ active_connections' = active_connections
                 /\ (o \notin DOMAIN orders \/ orders[o].user_id # u)
                    => req'[r] = [IdleReq EXCEPT
                                     !.kind = "route", !.user = u, !.order = o,
                                     !.pc = "done",
                                     !.response = HTTPException(404, "not_found")]
                 /\ req'[r].response.code = 200
                    => /\ o \in DOMAIN orders
                       /\ orders[o].user_id = u
                       /\ req'[r].response.polyline = orders[o].polyline]_vars

\* the route of a shipped order was refused to another user and given to its
\* owner
C22_Witness ==
    \E r1, r2 \in Reqs :
        /\ req[r1].kind = "route" /\ req[r2].kind = "route"
        /\ req[r1].order = req[r2].order
        /\ req[r1].order \in DOMAIN orders
        /\ orders[req[r1].order].polyline # NULL
        /\ req[r1].response.code = 404
        /\ req[r2].response.code = 200
        /\ req[r2].response.polyline = orders[req[r2].order].polyline

\* C23: the status of an order changes only from packing to shipped, from
\* packing to canceled, or from shipped to delivered, whatever confirmations,
\* cancellations and dispatches overlap.
C23_StatusLifecycle ==
    [][\A o \in DOMAIN orders :
          o \in DOMAIN orders'
          => \/ orders'[o].status = orders[o].status
             \/ <<orders[o].status, orders'[o].status>> \in
                    {<<PACKING, SHIPPED>>, <<PACKING, CANCELED>>,
                     <<SHIPPED, DELIVERED>>}]_vars

\* C24: a confirmation that found the customer's cart empty is answered with
\* an error and leaves no order behind; no confirmation ends with an order
\* that has no order lines.
C24_EmptyCartRejected ==
    \A r \in ConfirmCalls :
        (req[r].pc = "done" /\ req[r].order # NULL /\ req[r].rows = <<>>)
        => /\ req[r].response.code >= 400
           /\ req[r].order \notin DOMAIN orders

\* C25: whatever update_cart calls have been made, a cart holds at most one
\* line per item and every stored line has a quantity of at least 1; a call
\* that posts a quantity of 0 or less for an item leaves the caller without a
\* line for it, a call that posts a positive quantity leaves exactly that
\* quantity, and no call changes the cart of another user.
C25_CartLinesPositive ==
    /\ [](\A c \in cart_item :
            /\ c.quantity >= 1
            /\ \A d \in cart_item :
                   (c.user_id = d.user_id /\ c.item_id = d.item_id) => c = d)
    /\ [][\A r \in Reqs :
             (Acts(r) /\ req[r].pc = "cart_commit")
             => /\ CartQuantity(req[r].user, req[r].item)' =
                       IF req[r].quantity <= 0 THEN 0 ELSE req[r].quantity
                /\ req[r].quantity <= 0
                   => ~ \E c \in cart_item' :
                          c.user_id = req[r].user /\ c.item_id = req[r].item
                /\ \A c \in (cart_item' \ cart_item) \cup (cart_item \ cart_item') :
                       c.user_id = req[r].user]_vars

\* C26: a frame that triggers a dispatch while no order is packing starts no
\* planner call: the socket stays waiting for its next frame, open, and no
\* table or inbox is written.
C26_EmptyDispatchNoOp ==
    [][\A s \in Sessions :
          (/\ veh[s].pc = "recv" /\ veh'[s].frames = veh[s].frames + 1
           /\ veh'[s].vehicle # NULL
           /\ LoadPacking = <<>>)
          => /\ veh'[s].pc = "recv"
             /\ db' = db
             /\ inbox' = inbox]_vars

\* C27: the first frame of a ws/deliver socket only authenticates: the query
\* of the packing orders and the planner call are started only by a frame
\* that arrives on a socket already authenticated, and only while the vehicle
\* is READY; the step that receives a frame writes no table.
C27_FirstFrameOnlyAuthenticates ==
    [][\A s \in Sessions :
          /\ (veh[s].pc = "recv" /\ veh'[s].pc = "planning")
             => /\ veh[s].vehicle # NULL
                /\ VehicleStatus(veh[s].vehicle) = READY
          /\ (veh[s].pc = "recv" /\ veh'[s] # veh[s]) => db' = db]_vars

\* C28: every order that a dispatch step writes is an order whose id tags a
\* destination visited by the route the planner returned to that socket, and
\* it is shipped with the polyline of that route and the socket's vehicle,
\* whichever of the requested destinations the route visits; a visited order
\* that is not written does not exist any more.
C28_VisitsMatchedByOrderId ==
    [][\A s \in Sessions :
          (veh[s].pc = "planning" /\ veh'[s] # veh[s])
          => /\ \A o \in DOMAIN orders' :
                    (o \notin DOMAIN orders \/ orders'[o] # orders[o])
                    => /\ o \in veh'[s].visited
                       /\ orders'[o].status = SHIPPED
                       /\ orders'[o].polyline = RoutePolyline(s)
                       /\ orders'[o].delivery_vehicle_id = veh[s].vehicle
             /\ veh'[s].pc # "closed"
                => \A o \in veh'[s].visited :
                       /\ o \in DOMAIN orders'
                       /\ orders'[o].polyline = RoutePolyline(s)]_vars

\* of two packing orders requested, the route visited the second one only:
\* the second is shipped with the route's polyline, the first still packing
C28_Witness ==
    \E s \in Sessions :
        /\ veh[s].visited = {2}
        /\ orders[2].status = SHIPPED /\ orders[2].polyline = RoutePolyline(s)
        /\ orders[1].status = PACKING /\ orders[1].polyline = NULL

\* C29: no two ws/deliver sockets that are both connected have authenticated
\* as the same vehicle.
C29_OneSessionPerVehicle ==
    \A s, t \in Sessions :
        (/\ s # t
         /\ veh[s].vehicle # NULL /\ veh[s].pc # "closed"
         /\ veh[t].vehicle # NULL /\ veh[t].pc # "closed")
        => veh[s].vehicle # veh[t].vehicle

RECURSIVE SumQuantity(_)
SumQuantity(S) ==
    IF S = {} THEN 0
    ELSE LET oi == CHOOSE x \in S : TRUE IN oi.quantity + SumQuantity(S \ {oi})

\* the units of an item held by the order lines of orders that are not canceled
ReservedQty(i) ==
    SumQuantity({oi \in order_items :
                    /\ oi.item_id = i
                    /\ oi.order_id \in DOMAIN orders
                    /\ orders[oi.order_id].status # CANCELED})

\* C30: for every item the stock plus the quantities of its order lines in
\* orders that are not canceled is the initial stock, in every state and
\* whatever cancellations and dispatches overlap, and no step of a ws/deliver
\* socket writes the stock.
C30_InventoryConserved ==
    /\ [](\A i \in Items : stock_qty[i] + ReservedQty(i) = InitStock)
    /\ [][(veh' # veh) => (stock_qty' = stock_qty)]_vars

====
